---- MODULE Spec2Model ----
(* Hydrosync operator station (src/hydrosync.py): the serial telemetry and  *)
(* command pipeline of class App.  A background thread (read_serial_thread) *)
(* turns the device's byte stream into decoded records on rx_queue; the Tk  *)
(* main thread drains the queue every tick (poll_queue / update_plot) into  *)
(* three rolling buffers, sends commands (send_serial) and shuts down       *)
(* (on_close).                                                              *)
(*                                                                          *)
(* Bytes are modelled as lexemes: one element of a byte sequence stands for *)
(* one byte (newline, carriage return, a digit, a brace, an invalid UTF-8   *)
(* byte, a garbage letter) or for a fixed run of bytes that the code never  *)
(* looks into (a quoted key with its colon, a string literal, null, a run   *)
(* of 100000 opening brackets).  The framing code only tells the newline    *)
(* from every other byte, so a chunk boundary inside such a run behaves as  *)
(* one between two of these elements.                                       *)
EXTENDS Integers, Sequences, FiniteSets, TLC

\* ------------------------------------------------------------------ bounds
\* Bytes the device sends in the framing specification.
MaxStream == 4
\* Bursts (a line, or line noise) the device sends in the pipeline specifications.
MaxLines == 2
\* Samples the device sends in the rolling-buffer specification.
MaxSamples == 3
\* Length of the rolling buffers (600 in the program, np.linspace(0, 10, 600)).
N == 2
\* Commands written to the connection that the model records.
MaxTx == 2

\* ---------------------------------------------------------------- alphabet
NL == "\n"
CR == "\r"
\* A byte that is not valid UTF-8 (0xFF): decode(errors="ignore") drops it.
BAD == "0xFF"
LBRACE == "{"
RBRACE == "}"
\* "motor_cmd_v": and "voltage": (a quoted key and its colon).
KV == "\"motor_cmd_v\":"
KU == "\"voltage\":"
\* "abc" (a JSON string literal that float() rejects).
STR == "\"abc\""
NUL == "null"
\* A letter outside any JSON token.
GARB == "x"
\* 100000 opening brackets: json.loads raises RecursionError on it.
DEEP == "[[[[["
Digits == {"1", "2"}
Keys == {KV, KU}
Byte == {NL, CR, BAD, LBRACE, RBRACE, KV, KU, STR, NUL, GARB, DEEP} \cup Digits

\* ----------------------------------------------------------------- helpers
Last(s) == s[Len(s)]

Prefix(s, n) == SubSeq(s, 1, n)

Drop(s, n) == SubSeq(s, n + 1, Len(s))

IsPrefix(s, t) == Len(s) <= Len(t) /\ Prefix(t, Len(s)) = s

Min(a, b) == IF a <= b THEN a ELSE b

\* bytearray.find(b'\n'): the 0-based index of the first newline, or -1.
Find(b) ==
    IF \E k \in 1..Len(b) : b[k] = NL
    THEN (CHOOSE k \in 1..Len(b) : b[k] = NL /\ \A j \in 1..(k - 1) : b[j] # NL) - 1
    ELSE -1

\* bytes.decode(errors="ignore"): the text without the undecodable bytes.
Decode(b) == SelectSeq(b, LAMBDA c : c # BAD)

\* A strip that removes nothing.
StripNothing == {}

\* The characters of "\r\n \t" that the alphabet has.
StripSet == {CR, NL}

RECURSIVE LStrip(_)
LStrip(t) == IF t # <<>> /\ Head(t) \in StripSet THEN LStrip(Tail(t)) ELSE t

RECURSIVE RStrip(_)
RStrip(t) ==
    IF t # <<>> /\ Last(t) \in StripSet THEN RStrip(Prefix(t, Len(t) - 1)) ELSE t

\* str.strip("\r\n \t")
Strip(t) == RStrip(LStrip(t))

\* The text the decoder is handed for the frame buf[:nl].
RawOf(frame) == Strip(Decode(frame))

\* -------------------------------------------------------------- json.loads
\* Decoded values: <<"num", n>>, <<"str">>, <<"null">>, <<"obj">> (the empty
\* object) and <<"obj", key, value>> (an object with one member).
Num(n) == <<"num", n>>
StrVal == <<"str">>
NullVal == <<"null">>
EmptyObj == <<"obj">>
Obj(k, v) == <<"obj", k, v>>

\* The index of the first element at or after i that is not JSON whitespace.
SkipWs(t, i) ==
    LET skip[k \in 1..(Len(t) + 1)] == IF k <= Len(t) /\ t[k] = CR THEN skip[k + 1] ELSE k
    IN skip[i]

\* The index after the run of digits that starts at i.
DigitsEnd(t, i) ==
    LET run[k \in 1..(Len(t) + 1)] == IF k <= Len(t) /\ t[k] \in Digits THEN run[k + 1] ELSE k
    IN run[i]

DigitVal(c) == IF c = "1" THEN 1 ELSE 2

\* The decimal value of the digits t[i..j-1].
DigitsVal(t, i, j) ==
    LET val[k \in 0..Len(t)] == IF k < i THEN 0 ELSE 10 * val[k - 1] + DigitVal(t[k])
    IN val[j - 1]

Ok(v, nxt) == [st |-> "ok", val |-> v, nxt |-> nxt]
Err == [st |-> "JSONDecodeError", val |-> NullVal, nxt |-> 0]
Exc == [st |-> "RecursionError", val |-> NullVal, nxt |-> 0]

\* The scanner: the value that starts at t[i], read left to right.  It fails
\* with JSONDecodeError at the first element that fits no value, and with
\* RecursionError when it meets the run of brackets where a value may start.
ScanOnce(t, i) ==
    LET scan[k \in 1..(Len(t) + 1)] ==
        IF k > Len(t) THEN Err
        ELSE IF t[k] \in Digits
        THEN Ok(Num(DigitsVal(t, k, DigitsEnd(t, k))), DigitsEnd(t, k))
        ELSE IF t[k] = STR THEN Ok(StrVal, k + 1)
        ELSE IF t[k] = NUL THEN Ok(NullVal, k + 1)
        ELSE IF t[k] = DEEP THEN Exc
        ELSE IF t[k] = LBRACE THEN
            LET j == SkipWs(t, k + 1) IN
            IF j > Len(t) THEN Err
            ELSE IF t[j] = RBRACE THEN Ok(EmptyObj, j + 1)
            ELSE IF t[j] \in Keys THEN
                LET r == scan[SkipWs(t, j + 1)] IN
                IF r.st # "ok" THEN r
                ELSE LET m == SkipWs(t, r.nxt) IN
                     IF m <= Len(t) /\ t[m] = RBRACE THEN Ok(Obj(t[j], r.val), m + 1)
                     ELSE Err
            ELSE Err
        ELSE Err
    IN scan[i]

\* json.loads of a text t.  "Extra data" after the value is a JSONDecodeError.
LoadsText(t) ==
    LET r == ScanOnce(t, SkipWs(t, 1)) IN
    IF r.st # "ok" THEN r
    ELSE IF SkipWs(t, r.nxt) <= Len(t) THEN Err
    ELSE r

\* json.loads(raw): the value, or the exception raised (raw is evaluated once).
JsonLoads(raw) == CHOOSE r \in {LoadsText(t) : t \in {raw}} : TRUE

\* ------------------------------------------------------------- update_plot
\* Exact fractions <<numerator, denominator>> stand for the floats.
RECURSIVE Gcd(_, _)
Gcd(a, b) == IF b = 0 THEN a ELSE Gcd(b, a % b)

Frac(n, d) == LET g == Gcd(n, d) IN IF n = 0 THEN <<0, 1>> ELSE <<n \div g, d \div g>>

FracMul(x, y) == Frac(x[1] * y[1], x[2] * y[2])

Zero == <<0, 1>>

IsDict(data) == data[1] = "obj"

\* data.get("motor_cmd_v", 0.0)
GetMotorCmdV(data) == IF Len(data) = 3 /\ data[2] = KV THEN data[3] ELSE Num(0)

\* update_plot raises: data has no get (AttributeError), float() of the field
\* fails (ValueError, TypeError), or the load is 0 (ZeroDivisionError).
UpdatePlotRaises(data, load) ==
    \/ ~IsDict(data)
    \/ GetMotorCmdV(data)[1] # "num"
    \/ load = 0

\* v = float(data.get("motor_cmd_v", 0.0))
VoltsOf(data) == Frac(GetMotorCmdV(data)[2], 1)

\* i = v / float(self.load_r.get()) * 1000.0
AmpsOf(data, load) == Frac(GetMotorCmdV(data)[2] * 1000, load)

\* p = v * i
PowerOf(data, load) == FracMul(VoltsOf(data), AmpsOf(data, load))

\* np.roll(a, -1): every element one place to the left, the first to the end.
NpRoll(a) == Tail(a) \o <<Head(a)>>

\* a[0] = x: the new value written over the first element.
SetFirst(a, x) == [a EXCEPT ![1] = x]

\* a[-1] = x
SetLast(a, x) == [a EXCEPT ![Len(a)] = x]

\* self.x_data = np.roll(self.x_data, -1); self.x_data[-1] = x
Scroll(a, x) == SetLast(NpRoll(a), x)

\* ------------------------------------------------------------------- state
VARIABLES
    ser,            \* self.ser: "None" or "Serial"
    is_open,        \* self.ser.is_open
    in_waiting,     \* the bytes in the port's input buffer (self.ser.in_waiting of them)
    sent,           \* how many bursts (bytes or lines) the device has transmitted
    tx,             \* the lines written to the port, oldest first
    stop_thread,    \* self.stop_thread
    p_pc,           \* where read_serial_thread is
    p_n,            \* the size passed to self.ser.read (0 outside the call)
    buf,            \* read_serial_thread's bytearray
    rx_queue,       \* self.rx_queue
    main_pc,        \* where the Tk main thread is
    poll_scheduled, \* a root.after(queue_period_ms, poll_queue) timer is pending
    v_data,         \* self.v_data
    i_data,         \* self.i_data
    p_data,         \* self.p_data
    load_r,         \* self.load_r
    running,        \* self.running
    analog_v,       \* self.analog_v
    consumed,       \* history: every byte self.ser.read returned
    handed,         \* history: every text passed to json.loads
    enq,            \* history: every item put on rx_queue
    deq,            \* history: every item get_nowait returned
    ins,            \* history: every <<v, i, p>> update_plot scrolled in
    caught,         \* history: what the thread's outer handler caught in the turn just ended
    close_calls,    \* history: calls of self.ser.close()
    cb_error,       \* history: the exception that left a Tk callback
    tick,           \* history: how many items the queue held when the latest tick of
                    \* poll_queue began (q0) and how many the tick has taken (n)
    send_log        \* history: what the last send_serial did and returned

conn == <<ser, is_open, in_waiting, sent, tx>>
producer == <<p_pc, p_n, buf, consumed, handed, caught>>
channel == <<rx_queue, enq>>
rolling == <<v_data, i_data, p_data, ins>>
consumer == <<deq, cb_error>>
controls == <<load_r, running, analog_v, send_log>>
lifecycle == <<stop_thread, main_pc, poll_scheduled, close_calls, tick>>
vars == <<conn, producer, channel, rolling, consumer, controls, lifecycle>>

\* The tick that __init__ runs: it finds the new queue empty.
NoTick == [q0 |-> 0, n |-> 0]

\* np.zeros_like(self.x)
Zeros == [k \in 1..N |-> Zero]

\* App.__init__: the port is found and opened, or not; the reader thread is
\* started only with a port; the first poll_queue found the queue empty and
\* armed the timer.
Init ==
    /\ ser \in {"None", "Serial"}
    /\ is_open = (ser = "Serial")
    /\ in_waiting = <<>>
    /\ sent = 0
    /\ tx = <<>>
    /\ stop_thread = FALSE
    /\ p_pc = IF ser = "Serial" THEN "while" ELSE "not started"
    /\ p_n = 0
    /\ buf = <<>>
    /\ rx_queue = <<>>
    /\ main_pc = "mainloop"
    /\ poll_scheduled = TRUE
    /\ v_data = Zeros
    /\ i_data = Zeros
    /\ p_data = Zeros
    /\ load_r = 220
    /\ running = FALSE
    /\ analog_v = Zero
    /\ consumed = <<>>
    /\ handed = <<>>
    /\ enq = <<>>
    /\ deq = <<>>
    /\ ins = <<>>
    /\ caught = "nothing"
    /\ close_calls = 0
    /\ cb_error = "nothing"
    /\ tick = NoTick
    /\ send_log = [did |-> "nothing", returned |-> "None", printed |-> "nothing"]

\* ------------------------------------------------------------- the device
\* Line noise: a blank line, a line that is not JSON and a line of brackets.
NoiseBurst == <<CR, NL, GARB, NL, DEEP, NL>>

\* What the firmware sends at a time in the pipeline specifications.
TelemetryLines ==
    { <<LBRACE, KV, "1", RBRACE, NL>>,
      <<LBRACE, KV, "2", RBRACE, NL>>,
      <<LBRACE, KU, "1", RBRACE, NL>>,
      <<LBRACE, KV, STR, RBRACE, NL>>,
      <<"1", NL>>,
      NoiseBurst }

\* The bytes the device sends in the framing specification.
FramingBytes == {NL, CR, BAD, "1", GARB, DEEP}

\* Bytes arrive in the input buffer of the open port.
DeviceSends(burst) ==
    /\ ser = "Serial" /\ is_open
    /\ in_waiting' = in_waiting \o burst
    /\ sent' = sent + 1
    /\ UNCHANGED <<ser, is_open, tx, producer, channel, rolling, consumer, controls,
                   lifecycle>>

DeviceByte == sent < MaxStream /\ \E b \in FramingBytes : DeviceSends(<<b>>)

DeviceLine == sent < MaxLines /\ \E line \in TelemetryLines : DeviceSends(line)

\* The well-formed samples among them, and the noise.
SampleLines ==
    { <<LBRACE, KV, "1", RBRACE, NL>>, <<LBRACE, KV, "2", RBRACE, NL>>, NoiseBurst }

DeviceSample == sent < MaxSamples /\ \E line \in SampleLines : DeviceSends(line)

\* A sample, a line that update_plot raises on, and the noise.
TickLines == { <<LBRACE, KV, "1", RBRACE, NL>>, <<"1", NL>>, NoiseBurst }

DeviceTick == sent < MaxLines /\ \E line \in TickLines : DeviceSends(line)

\* The first line only, for the specification of the whole program.
DeviceFirst == sent = 0 /\ \E line \in TelemetryLines : DeviceSends(line)

\* ------------------------------------------------------ read_serial_thread
\* A handler that ends the thread instead of going back to the loop's test.
ThreadCatchesAndEnds(what) ==
    /\ caught' = what
    /\ p_pc' = "exited"

\* except Exception as e: print(...); time.sleep(0.1); then time.sleep(0.005)
\* and back to the loop's test.
ThreadCatches(what) ==
    /\ caught' = what
    /\ p_pc' = "while"

\* A loop test that does not read the shutdown signal.
KeepRunningIgnoresStop == ser = "Serial"

\* not self.stop_thread and self.ser
KeepRunning == ~stop_thread /\ ser = "Serial"

\* while not self.stop_thread and self.ser:
ThreadWhile ==
    /\ p_pc = "while"
    /\ p_pc' = IF KeepRunning THEN "in_waiting" ELSE "exited"
    /\ caught' = "nothing"
    /\ UNCHANGED <<p_n, buf, consumed, handed>>
    /\ UNCHANGED <<conn, channel, rolling, consumer, controls, lifecycle>>

\* self.ser.in_waiting or 1: raises on a closed port.
ThreadInWaiting ==
    /\ p_pc = "in_waiting"
    /\ IF is_open
       THEN /\ p_n' = IF Len(in_waiting) > 0 THEN Len(in_waiting) ELSE 1
            /\ p_pc' = "read"
            /\ UNCHANGED caught
       ELSE /\ ThreadCatches("read")
            /\ UNCHANGED p_n
    /\ UNCHANGED <<buf, consumed, handed>>
    /\ UNCHANGED <<conn, channel, rolling, consumer, controls, lifecycle>>

\* chunk = self.ser.read(n): at most n of the bytes that have arrived, none
\* after the timeout; raises on a closed port.  if chunk: buf.extend(chunk)
ThreadRead ==
    /\ p_pc = "read"
    /\ IF is_open
       THEN LET chunk == Prefix(in_waiting, Min(p_n, Len(in_waiting))) IN
            /\ in_waiting' = Drop(in_waiting, Len(chunk))
            /\ consumed' = consumed \o chunk
            /\ buf' = buf \o chunk
            /\ p_pc' = IF chunk # <<>> THEN "split" ELSE "while"
            /\ UNCHANGED caught
       ELSE /\ ThreadCatches("read")
            /\ UNCHANGED <<in_waiting, consumed, buf>>
    /\ p_n' = 0
    /\ UNCHANGED handed
    /\ UNCHANGED <<ser, is_open, sent, tx, channel, rolling, consumer, controls,
                   lifecycle>>

\* The port's driver fails a read on the open port (a transient I/O error).
ThreadReadError ==
    /\ p_pc \in {"in_waiting", "read"}
    /\ is_open
    /\ ThreadCatches("read")
    /\ p_n' = 0
    /\ UNCHANGED <<buf, consumed, handed>>
    /\ UNCHANGED <<conn, channel, rolling, consumer, controls, lifecycle>>

\* self.rx_queue.put(data)
Put(q, data) == Append(q, data)

\* nl = buf.find(b'\n')
Nl == Find(buf)

\* raw = buf[:nl].decode(errors="ignore").strip("\r\n \t")
Raw == RawOf(Prefix(buf, Nl))

\* if nl < 0: break
SplitBreak ==
    /\ p_pc = "split"
    /\ Nl < 0
    /\ p_pc' = "while"
    /\ UNCHANGED <<p_n, buf, consumed, handed, caught>>
    /\ UNCHANGED <<conn, channel, rolling, consumer, controls, lifecycle>>

\* del buf[:nl+1]; if not raw: continue
SplitEmpty ==
    /\ p_pc = "split"
    /\ Nl >= 0
    /\ Raw = <<>>
    /\ buf' = Drop(buf, Nl + 1)
    /\ UNCHANGED <<p_pc, p_n, consumed, handed, caught>>
    /\ UNCHANGED <<conn, channel, rolling, consumer, controls, lifecycle>>

\* del buf[:nl+1]; data = json.loads(raw); self.rx_queue.put(data)
SplitPut ==
    /\ p_pc = "split"
    /\ Nl >= 0
    /\ Raw # <<>>
    /\ JsonLoads(Raw).st = "ok"
    /\ buf' = Drop(buf, Nl + 1)
    /\ handed' = Append(handed, Raw)
    /\ rx_queue' = Put(rx_queue, JsonLoads(Raw).val)
    /\ enq' = Append(enq, JsonLoads(Raw).val)
    /\ UNCHANGED <<p_pc, p_n, consumed, caught>>
    /\ UNCHANGED <<conn, rolling, consumer, controls, lifecycle>>

\* del buf[:nl+1]; json.loads(raw) raises json.JSONDecodeError: pass
SplitIgnore ==
    /\ p_pc = "split"
    /\ Nl >= 0
    /\ Raw # <<>>
    /\ JsonLoads(Raw).st = "JSONDecodeError"
    /\ buf' = Drop(buf, Nl + 1)
    /\ handed' = Append(handed, Raw)
    /\ UNCHANGED <<p_pc, p_n, consumed, caught>>
    /\ UNCHANGED <<conn, channel, rolling, consumer, controls, lifecycle>>

\* del buf[:nl+1]; json.loads(raw) raises another exception, which the outer
\* handler catches: the inner loop is left.
SplitRaise ==
    /\ p_pc = "split"
    /\ Nl >= 0
    /\ Raw # <<>>
    /\ JsonLoads(Raw).st = "RecursionError"
    /\ buf' = Drop(buf, Nl + 1)
    /\ handed' = Append(handed, Raw)
    /\ ThreadCatches("json.loads")
    /\ UNCHANGED <<p_n, consumed>>
    /\ UNCHANGED <<conn, channel, rolling, consumer, controls, lifecycle>>

\* One turn of the inner loop (while True).
ThreadSplit == SplitBreak \/ SplitEmpty \/ SplitPut \/ SplitIgnore \/ SplitRaise

read_serial_thread ==
    ThreadWhile \/ ThreadInWaiting \/ ThreadRead \/ ThreadReadError \/ ThreadSplit

\* ------------------------------------------------------------- send_serial
AllDigits == <<"0", "1", "2", "3", "4", "5", "6", "7", "8", "9">>

\* The decimal digits of n, most significant first.
RECURSIVE IntStr(_)
IntStr(n) == IF n < 10 THEN <<AllDigits[n + 1]>> ELSE IntStr(n \div 10) \o <<AllDigits[(n % 10) + 1]>>

\* A float written without its fractional part: 1.0 for 1.5.
FloatStrWhole(x) == IntStr(x[1] \div x[2]) \o <<".", "0">>

\* repr of a float with at most one decimal place: 0.0, 1.5, 3.3
FloatStr(x) ==
    LET tenths == (x[1] * 10) \div x[2] IN
    IntStr(tenths \div 10) \o <<".">> \o IntStr(tenths % 10)

Quoted(action) ==
    CASE action = "START" -> "\"START\""
      [] action = "STOP" -> "\"STOP\""
      [] action = "SIMULINK_ANALOG" -> "\"SIMULINK_ANALOG\""

\* json.dumps({"action": action, "value": value}, separators=(",", ":")) + "\n"
\* with value None (<<>> here) or a float.
JsonStr(action, value) ==
    <<LBRACE, "\"action\":", Quoted(action), ",", "\"value\":">>
        \o (IF value = <<>> THEN <<NUL>> ELSE FloatStr(value))
        \o <<RBRACE, NL>>

\* A send that does not look at the connection.
CanSendAlways == TRUE

\* if self.ser and self.ser.is_open:
CanSend == ser = "Serial" /\ is_open

\* The write's exception without the handler: it leaves send_serial.
WriteRaisedEscapes ==
    /\ send_log' = [did |-> "write raised", returned |-> "raised", printed |-> "nothing"]
    /\ cb_error' = "send_serial"
    /\ UNCHANGED tx

\* except Exception as e: print("Error writing to serial:", e)
WriteRaised ==
    /\ send_log' = [did |-> "write raised", returned |-> "None",
                    printed |-> "Error writing to serial"]
    /\ UNCHANGED <<tx, cb_error>>

\* send_serial(action, value): the write may raise; nothing is returned.
send_serial(action, value) ==
    IF CanSend
    THEN \/ /\ tx' = Append(tx, JsonStr(action, value))
            /\ send_log' = [did |-> "written", returned |-> "None", printed |-> "TX"]
            /\ UNCHANGED cb_error
         \/ WriteRaised
    ELSE /\ send_log' = [did |-> "no open connection", returned |-> "None",
                         printed |-> "nothing"]
         /\ UNCHANGED <<tx, cb_error>>

\* --------------------------------------------------------- control callbacks
\* A callback runs when the main thread is in the event loop.
InMainloop == main_pc = "mainloop"

start ==
    /\ InMainloop
    /\ Len(tx) < MaxTx
    /\ ~running
    /\ running' = TRUE
    /\ send_serial("START", <<>>)
    /\ UNCHANGED <<ser, is_open, in_waiting, sent, load_r, analog_v, deq>>
    /\ UNCHANGED <<producer, channel, rolling, lifecycle>>

stop ==
    /\ InMainloop
    /\ Len(tx) < MaxTx
    /\ running
    /\ running' = FALSE
    /\ send_serial("STOP", <<>>)
    /\ UNCHANGED <<ser, is_open, in_waiting, sent, load_r, analog_v, deq>>
    /\ UNCHANGED <<producer, channel, rolling, lifecycle>>

\* The texts the analog entry holds when Set Analog is pressed.
AnalogTexts == {<<>>, <<"5">>, <<"1", ".", "5">>}

IsDigits(t) == t # <<>> /\ \A k \in 1..Len(t) : \E d \in 1..10 : AllDigits[d] = t[k]

DigitOf(c) == (CHOOSE d \in 1..10 : AllDigits[d] = c) - 1

RECURSIVE IntOf(_)
IntOf(t) == IF t = <<>> THEN 0 ELSE 10 * IntOf(Prefix(t, Len(t) - 1)) + DigitOf(Last(t))

RECURSIVE Pow10(_)
Pow10(k) == IF k = 0 THEN 1 ELSE 10 * Pow10(k - 1)

DotAt(t) == IF \E k \in 1..Len(t) : t[k] = "." THEN CHOOSE k \in 1..Len(t) : t[k] = "." ELSE 0

\* float(text) succeeds on digits, or digits around one point with a digit.
FloatOk(t) ==
    \/ IsDigits(t)
    \/ /\ DotAt(t) > 0
       /\ Len(t) > 1
       /\ LET a == Prefix(t, DotAt(t) - 1)
              b == Drop(t, DotAt(t))
          IN (a = <<>> \/ IsDigits(a)) /\ (b = <<>> \/ IsDigits(b))

FloatOf(t) ==
    IF IsDigits(t) THEN Frac(IntOf(t), 1)
    ELSE LET a == Prefix(t, DotAt(t) - 1)
             b == Drop(t, DotAt(t))
         IN Frac(IntOf(a) * Pow10(Len(b)) + IntOf(b), Pow10(Len(b)))

\* 3.3
VMax == <<33, 10>>

FracLess(x, y) == x[1] * y[2] < y[1] * x[2]

\* No clamp: the value as entered.
ClampNone(x) == x

\* if (value < 0): value = 0.0;  if (value > 3.3): value = 3.3
Clamp(x) == IF FracLess(x, Zero) THEN Zero ELSE IF FracLess(VMax, x) THEN VMax ELSE x

set_analog ==
    /\ InMainloop
    /\ Len(tx) < MaxTx
    /\ \E text \in AnalogTexts :
        IF FloatOk(text)
        THEN /\ analog_v' = Clamp(FloatOf(text))
             /\ send_serial("SIMULINK_ANALOG", Clamp(FloatOf(text)))
        ELSE UNCHANGED <<analog_v, tx, send_log, cb_error>>
    /\ UNCHANGED <<ser, is_open, in_waiting, sent, load_r, running, deq>>
    /\ UNCHANGED <<producer, channel, rolling, lifecycle>>

\* The texts the load entry holds when Set Load is pressed.
LoadTexts == {<<>>, <<"0">>, <<"2">>}

\* int(text) succeeds on digits only.
set_load ==
    /\ InMainloop
    /\ \E text \in LoadTexts :
        IF IsDigits(text) THEN load_r' = IntOf(text) ELSE UNCHANGED load_r
    /\ UNCHANGED <<running, analog_v, send_log>>
    /\ UNCHANGED <<conn, producer, channel, rolling, consumer, lifecycle>>

\* -------------------------------------------------------------- poll_queue
\* self.rx_queue.get_nowait(): the item at the front.
GetNowait(q) == Head(q)

\* A get that empties the queue and returns its first item.
RemainingNone(q) == <<>>

\* The queue after get_nowait.
Remaining(q) == Tail(q)

\* update_plot(data): raises before it touches a buffer, or scrolls the three.
update_plot(data) ==
    IF UpdatePlotRaises(data, load_r)
    THEN /\ cb_error' = "update_plot"
         /\ main_pc' = "mainloop"
         /\ UNCHANGED <<rolling, poll_scheduled>>
    ELSE /\ i_data' = Scroll(i_data, AmpsOf(data, load_r))
         /\ v_data' = Scroll(v_data, VoltsOf(data))
         /\ p_data' = Scroll(p_data, PowerOf(data, load_r))
         /\ ins' = Append(ins, <<VoltsOf(data), AmpsOf(data, load_r), PowerOf(data, load_r)>>)
         /\ UNCHANGED <<cb_error, main_pc, poll_scheduled>>

\* The timer fires and Tk calls poll_queue.
PollFires ==
    /\ InMainloop
    /\ poll_scheduled
    /\ poll_scheduled' = FALSE
    /\ main_pc' = "poll_queue"
    /\ tick' = [q0 |-> Len(rx_queue), n |-> 0]
    /\ UNCHANGED <<stop_thread, close_calls>>
    /\ UNCHANGED <<conn, producer, channel, rolling, consumer, controls>>

\* A get that waits on the empty queue instead of raising queue.Empty.
PollWaits == main_pc = "poll_queue" /\ rx_queue = <<>> /\ FALSE

\* A tick that plots a zero when it finds the queue empty.
PollEmptyScrolls ==
    /\ main_pc = "poll_queue"
    /\ rx_queue = <<>>
    /\ poll_scheduled' = TRUE
    /\ main_pc' = "mainloop"
    /\ v_data' = Scroll(v_data, Zero)
    /\ UNCHANGED <<rx_queue, i_data, p_data, ins, consumer, tick>>
    /\ UNCHANGED <<enq, stop_thread, close_calls>>
    /\ UNCHANGED <<conn, producer, controls>>

\* get_nowait raises queue.Empty: the drain loop is left and the next tick is
\* scheduled, self.root.after(self.queue_period_ms, self.poll_queue).
PollEmpty ==
    /\ main_pc = "poll_queue"
    /\ rx_queue = <<>>
    /\ poll_scheduled' = TRUE
    /\ main_pc' = "mainloop"
    /\ UNCHANGED <<rx_queue, rolling, consumer, tick>>
    /\ UNCHANGED <<enq, stop_thread, close_calls>>
    /\ UNCHANGED <<conn, producer, controls>>

\* One turn of the drain loop: data = get_nowait(); self.update_plot(data)
PollDrain ==
    /\ main_pc = "poll_queue"
    /\ rx_queue # <<>>
    /\ rx_queue' = Remaining(rx_queue)
    /\ deq' = Append(deq, GetNowait(rx_queue))
    /\ update_plot(GetNowait(rx_queue))
    /\ tick' = [tick EXCEPT !.n = @ + 1]
    /\ UNCHANGED <<enq, stop_thread, close_calls>>
    /\ UNCHANGED <<conn, producer, controls>>

PollGet == PollDrain \/ PollEmpty

poll_queue == PollFires \/ PollGet

\* ---------------------------------------------------------------- on_close
\* self.stop_thread = True
OnCloseSignal ==
    /\ InMainloop
    /\ stop_thread' = TRUE
    /\ main_pc' = "on_close"
    /\ UNCHANGED <<poll_scheduled, close_calls, tick>>
    /\ UNCHANGED <<conn, producer, channel, rolling, consumer, controls>>

\* A close that is not guarded by the port's state.
ShouldCloseAlways == TRUE

\* if self.ser and self.ser.is_open:
ShouldClose == ser = "Serial" /\ is_open

\* self.ser.close() inside try/except (a close that raises leaves the port
\* open), then self.root.destroy(), which cancels the pending timer.
OnCloseFinish ==
    /\ main_pc = "on_close"
    /\ IF ShouldClose
       THEN /\ close_calls' = close_calls + 1
            /\ is_open' \in {FALSE, TRUE}
       ELSE UNCHANGED <<close_calls, is_open>>
    /\ main_pc' = "destroyed"
    /\ poll_scheduled' = FALSE
    /\ UNCHANGED <<ser, in_waiting, sent, tx, stop_thread, tick>>
    /\ UNCHANGED <<producer, channel, rolling, consumer, controls>>

on_close == OnCloseSignal \/ OnCloseFinish

\* ---------------------------------------------------------- specifications
\* The whole program, with one telemetry line from the device.
Next ==
    \/ DeviceFirst
    \/ read_serial_thread
    \/ poll_queue
    \/ start
    \/ stop
    \/ set_analog
    \/ set_load
    \/ on_close

Spec == Init /\ [][Next]_vars

\* The framing and decoding path alone, over every byte stream.
NextFraming == DeviceByte \/ read_serial_thread

SpecFraming == Init /\ [][NextFraming]_vars

\* The receive path: device, reader thread, consumer, load setting, shutdown.
NextRx == DeviceLine \/ read_serial_thread \/ poll_queue \/ set_load \/ on_close

SpecRx == Init /\ [][NextRx]_vars

\* The receive path fed with well-formed samples and noise, enough to fill
\* the rolling buffers.
NextRolling == DeviceSample \/ read_serial_thread \/ poll_queue \/ set_load

SpecRolling == Init /\ [][NextRolling]_vars

\* Shutdown against the running reader thread.  The operating system keeps
\* scheduling the thread, and on_close, once called, runs on to its end.
NextShutdown == DeviceLine \/ read_serial_thread \/ on_close

SpecShutdown ==
    /\ Init
    /\ [][NextShutdown]_vars
    /\ WF_vars(read_serial_thread)
    /\ WF_vars(OnCloseFinish)

\* The reader thread against the consumer, with a main thread that goes on
\* running the callback it is in: a tick that has begun takes its next turn
\* of the drain loop.
NextTick == DeviceTick \/ read_serial_thread \/ poll_queue

SpecTick == Init /\ [][NextTick]_vars /\ WF_vars(PollGet)

\* ------------------------------------------------------------------ claims
\* The reader thread is between chunks: every chunk it has read is processed.
BetweenChunks == p_pc \in {"while", "in_waiting", "read", "exited"}

\* The positions of the newline bytes of a stream.
Newlines(s) == {k \in 1..Len(s) : s[k] = NL}

\* The position of the j-th newline, 0 for j = 0.
NthNewline(s, j) ==
    IF j = 0 THEN 0
    ELSE CHOOSE k \in Newlines(s) : Cardinality({m \in Newlines(s) : m <= k}) = j

\* The whole stream split at its newline bytes: what lies between the
\* (j-1)-th newline and the j-th, for every newline.
WholeSplit(s) ==
    [j \in 1..Cardinality(Newlines(s)) |->
        SubSeq(s, NthNewline(s, j - 1) + 1, NthNewline(s, j) - 1)]

\* The bytes after the last newline of the stream.
AfterLastNewline(s) == Drop(s, NthNewline(s, Cardinality(Newlines(s))))

\* The records of the whole stream: its frames decoded and stripped, the
\* empty ones left out.
WholeRecords(s) ==
    SelectSeq([j \in 1..Len(WholeSplit(s)) |-> RawOf(WholeSplit(s)[j])],
              LAMBDA r : r # <<>>)

\* C1: framing is chunk-size-invariant.  Once the thread has processed the
\* chunks read so far, the texts it has handed to the decoder are the records
\* of the whole stream read so far split at its newlines, in order, and its
\* buffer holds exactly the bytes after the last newline.
C1_ChunkInvariantFraming ==
    BetweenChunks =>
        /\ handed = WholeRecords(consumed)
        /\ buf = AfterLastNewline(consumed)

\* C2: a record that cannot be parsed puts nothing on rx_queue, raises
\* nothing past the decode step, and the thread goes on to decode the
\* complete records left in its buffer; no record is parsed twice.
C2_UnparsableRecordDropped ==
    /\ \A k \in 1..Len(enq) : \E j \in 1..Len(handed) :
            JsonLoads(handed[j]).st = "ok" /\ JsonLoads(handed[j]).val = enq[k]
    /\ Len(enq) = Cardinality({j \in 1..Len(handed) : JsonLoads(handed[j]).st = "ok"})
    /\ IsPrefix(handed, WholeRecords(consumed))
    /\ caught # "json.loads"
    /\ BetweenChunks => Find(buf) < 0

\* A Telemetry Sample: an object whose values are numbers.
IsTelemetrySample(data) == IsDict(data) /\ (Len(data) = 3 => data[3][1] = "num")

\* C3: every item the thread puts on rx_queue is a Telemetry Sample.
C3_OnlySamplesEnqueued == \A k \in 1..Len(enq) : IsTelemetrySample(enq[k])

\* The last N elements of a sequence.
LastN(s) == SubSeq(s, Len(s) - N + 1, Len(s))

\* The k-th component of every triple update_plot scrolled in.
Inserted(k) == [j \in 1..Len(ins) |-> ins[j][k]]

\* C4: the queue hands the samples over in the order they were decoded, none
\* lost or duplicated: what was dequeued followed by what is queued is what
\* was enqueued; update_plot is applied in that order, and between two ticks
\* every sample dequeued has been applied, the newest voltage being that of
\* the latest sample dequeued.
C4_FifoHandOff ==
    /\ enq = deq \o rx_queue
    /\ Len(ins) <= Len(deq)
    /\ \A k \in 1..Len(ins) : ins[k][1] = VoltsOf(deq[k])
    /\ (InMainloop /\ deq # <<>> /\ IsTelemetrySample(Last(deq))) =>
            /\ Len(ins) = Len(deq)
            /\ Last(v_data) = VoltsOf(Last(deq))

\* C5: a rolling buffer always holds exactly N values, the N last of the
\* initial zeros followed by every value inserted: each insertion drops the
\* oldest element and puts the new one at the end.
C5_RollingBuffers ==
    /\ Len(v_data) = N /\ Len(i_data) = N /\ Len(p_data) = N
    /\ v_data = LastN(Zeros \o Inserted(1))
    /\ i_data = LastN(Zeros \o Inserted(2))
    /\ p_data = LastN(Zeros \o Inserted(3))

\* N + 1 values went in, the first of them not 0, and the buffer holds the
\* last N of them.
C5_Witness ==
    /\ Len(ins) = N + 1
    /\ ins[1][1] # Zero
    /\ ins[1][1] # ins[2][1]
    /\ v_data = [k \in 1..N |-> ins[k + 1][1]]

\* C6: a send that cannot be completed returns WriteFailure to its caller.
C6_FailureReturned ==
    send_log.did \in {"no open connection", "write raised"} =>
        send_log.returned = "WriteFailure"

\* A callback that calls send_serial.
Sends == start \/ stop \/ set_analog

\* C7: no exception leaves send_serial, and a send that writes nothing (no
\* port, a closed port, a write that raises) leaves the written lines, the
\* reader thread, the queue and the rolling buffers as they were.
C7_SendNeverRaises ==
    [][Sends =>
        /\ cb_error' = cb_error
        /\ send_log'.returned = "None"
        /\ (send_log'.did # "written" => UNCHANGED <<tx, producer, channel, rolling>>)]_vars

\* A write has raised while a sample waited on the queue and the thread held
\* a partial record.
C7_Witness ==
    /\ send_log.did = "write raised"
    /\ rx_queue # <<>>
    /\ p_pc = "split"

\* The reader thread has left its loop, or never ran.
ThreadGone == p_pc \in {"exited", "not started"}

\* C8 as stated: once the signal is set the thread enqueues nothing more and
\* eventually leaves its loop, and on_close runs to its end.
C8_NothingEnqueuedAfterSignal ==
    /\ [][stop_thread => enq' = enq]_vars
    /\ stop_thread ~> ThreadGone
    /\ (main_pc = "on_close") ~> (main_pc = "destroyed")

\* C8 amended: once the signal is set the thread eventually leaves its loop;
\* the loop test that follows the signal ends the loop, so at most the turn
\* under way is finished; after it has left it enqueues nothing; on_close
\* runs to its end.
C8_ThreadStops ==
    /\ stop_thread ~> ThreadGone
    /\ [][(stop_thread /\ p_pc = "while") => p_pc' \in {"while", "exited"}]_vars
    /\ [][ThreadGone => (enq' = enq /\ p_pc' = p_pc)]_vars
    /\ (main_pc = "on_close") ~> (main_pc = "destroyed")

\* The window is destroyed and the thread has left its loop with a sample
\* enqueued and a partial record in its buffer.
C8_Witness ==
    /\ stop_thread
    /\ main_pc = "destroyed"
    /\ p_pc = "exited"
    /\ enq # <<>>
    /\ buf # <<>>

\* C9: there is one connection at most; close() is called at most once, by
\* on_close and only on the open port, and after shutdown it has been called
\* exactly when a port had been opened.
C9_ClosedOnce ==
    /\ [](is_open => ser = "Serial")
    /\ [](close_calls <= 1)
    /\ [](main_pc = "destroyed" => (close_calls = 1 <=> ser = "Serial"))
    /\ [][(close_calls' # close_calls \/ is_open' # is_open) =>
            (OnCloseFinish /\ is_open /\ close_calls' = close_calls + 1)]_vars

\* Shutdown has closed the port that was opened.
C9_Witness ==
    /\ main_pc = "destroyed"
    /\ ser = "Serial"
    /\ close_calls = 1
    /\ ~is_open

\* C10: whatever the device sent and whatever load was set, a tick ends by
\* scheduling the next one: outside a tick and before shutdown the timer is
\* pending, and no exception has left poll_queue.
C10_ConsumerKeepsRunning ==
    /\ InMainloop => poll_scheduled
    /\ cb_error # "update_plot"

\* Every record read so far has been handed to the decoder or is still whole
\* in the thread's buffer, in stream order, and the buffer ends with the
\* bytes after the last newline read.
NothingLost ==
    /\ handed \o WholeRecords(buf) = WholeRecords(consumed)
    /\ AfterLastNewline(buf) = AfterLastNewline(consumed)

\* C11: a read error is not terminal for the reader thread.  The step that
\* catches it keeps the buffer, the port's pending bytes and the queue and
\* goes back to the loop's test (after the fixed sleeps); the thread then
\* tries the read again unless it is told to stop; no record is lost; and
\* the loop is only left once the shutdown signal is set.
C11_ReadErrorRetried ==
    /\ [][(caught' = "read" /\ caught # "read") =>
            /\ p_pc' = "while"
            /\ UNCHANGED <<buf, in_waiting, consumed, handed, channel>>]_vars
    /\ []NothingLost
    /\ [][(p_pc' = "exited" /\ p_pc # "exited") => stop_thread]_vars
    /\ (caught = "read") ~> (p_pc = "in_waiting" \/ ThreadGone)

\* A read on the open port has failed while the thread held a partial record
\* and more bytes waited in the port; the thread is back at its loop test.
C11_Witness ==
    /\ caught = "read"
    /\ p_pc = "while"
    /\ is_open /\ ~stop_thread
    /\ buf # <<>> /\ Find(buf) < 0
    /\ in_waiting # <<>>

\* C12: when no connection was opened at startup, the reader thread is never
\* started and nothing is ever enqueued, while the application runs on:
\* the timer of poll_queue stays armed between ticks, the rolling buffers
\* keep their initial zeros, and start, stop and set_analog return without
\* an exception and without writing anything.
C12_RunsWithoutConnection ==
    ser = "None" =>
        /\ p_pc = "not started"
        /\ ~is_open
        /\ enq = <<>> /\ rx_queue = <<>> /\ deq = <<>>
        /\ v_data = Zeros /\ i_data = Zeros /\ p_data = Zeros
        /\ InMainloop => poll_scheduled
        /\ cb_error = "nothing"
        /\ tx = <<>>
        /\ send_log.did \in {"nothing", "no open connection"}
        /\ send_log.returned = "None"

\* Without a connection, Start and Set Analog have been pressed and a tick
\* of poll_queue is running.
C12_Witness ==
    /\ ser = "None"
    /\ running
    /\ analog_v # Zero
    /\ send_log.did = "no open connection"
    /\ main_pc = "poll_queue"

\* A text of carriage returns and newlines only (the empty text included).
Blank(t) == \A k \in 1..Len(t) : t[k] \in {CR, NL}

\* C13: an empty record yields no sample and no error, and the records that
\* follow it are still decoded.  No text that is empty or blank is ever
\* handed to json.loads; the step that meets a frame which is blank once its
\* undecodable bytes are dropped only deletes the frame and its newline and
\* stays in the inner loop, with the queue and the handler untouched; and no
\* record of the stream is lost.
C13_EmptyRecordSkipped ==
    /\ [](\A k \in 1..Len(handed) : ~Blank(handed[k]))
    /\ [][(p_pc = "split" /\ Nl >= 0 /\ Blank(Decode(Prefix(buf, Nl))) /\ buf' # buf) =>
            /\ buf' = Drop(buf, Nl + 1)
            /\ p_pc' = "split"
            /\ UNCHANGED <<handed, channel, caught>>]_vars
    /\ [](handed \o WholeRecords(buf) = WholeRecords(consumed))

\* The stream began with a carriage return and a newline, and the record
\* that followed was decoded and enqueued.
C13_Witness ==
    /\ Len(consumed) = 4
    /\ consumed[1] = CR /\ consumed[2] = NL /\ consumed[4] = NL
    /\ Len(handed) = 1
    /\ Len(enq) = 1
    /\ caught = "nothing"
    /\ buf = <<>>

\* The action a JSON string literal of a command names.
Unquote(q) ==
    CASE q = "\"START\"" -> "START"
      [] q = "\"STOP\"" -> "STOP"
      [] q = "\"SIMULINK_ANALOG\"" -> "SIMULINK_ANALOG"
      [] OTHER -> "?"

\* A JSON number: digits, or digits, a point and digits, with no leading zero
\* before another digit.
JsonNumber(v) ==
    /\ FloatOk(v)
    /\ DotAt(v) # 1 /\ DotAt(v) # Len(v)
    /\ (Len(v) > 1 /\ v[1] = "0") => v[2] = "."

NotACommand == [ok |-> FALSE, action |-> "?", value |-> <<>>]

\* The receiving side's parse of one command text: an object with the members
\* action (a string) and value (null, <<>> here, or a number).
CommandLoads(t) ==
    IF /\ Len(t) >= 7
       /\ t[1] = LBRACE /\ t[2] = "\"action\":" /\ Unquote(t[3]) # "?"
       /\ t[4] = "," /\ t[5] = "\"value\":" /\ Last(t) = RBRACE
    THEN LET v == SubSeq(t, 6, Len(t) - 1) IN
         IF v = <<NUL>> THEN [ok |-> TRUE, action |-> Unquote(t[3]), value |-> <<>>]
         ELSE IF JsonNumber(v) THEN [ok |-> TRUE, action |-> Unquote(t[3]), value |-> FloatOf(v)]
         ELSE NotACommand
    ELSE NotACommand

\* A written line without its last byte.
Body(line) == Prefix(line, Len(line) - 1)

\* C14: every write of send_serial puts exactly one line on the connection,
\* ending in a newline with no newline inside it, and parsing the line gives
\* back the action and the value of the call: START and null from start,
\* STOP and null from stop, SIMULINK_ANALOG and the value set from
\* set_analog.
C14_CommandRoundTrip ==
    [][tx' # tx =>
        /\ Len(tx') = Len(tx) + 1 /\ Prefix(tx', Len(tx)) = tx
        /\ LET line == Last(tx')
               cmd == CommandLoads(Body(line))
           IN /\ Last(line) = NL
              /\ \A k \in 1..(Len(line) - 1) : line[k] # NL
              /\ cmd.ok
              /\ \/ running' /\ ~running /\ cmd.action = "START" /\ cmd.value = <<>>
                 \/ ~running' /\ running /\ cmd.action = "STOP" /\ cmd.value = <<>>
                 \/ /\ running' = running
                    /\ cmd.action = "SIMULINK_ANALOG"
                    /\ cmd.value = analog_v']_vars

\* START and then SIMULINK_ANALOG with the value 1.5 have been written.
C14_Witness ==
    /\ Len(tx) = 2
    /\ CommandLoads(Body(tx[1])) = [ok |-> TRUE, action |-> "START", value |-> <<>>]
    /\ CommandLoads(Body(tx[2])) = [ok |-> TRUE, action |-> "SIMULINK_ANALOG", value |-> <<3, 2>>]

\* A decoded object without the member motor_cmd_v.
MissingField(data) == IsDict(data) /\ (Len(data) = 1 \/ data[2] # KV)

\* C15: a sample without motor_cmd_v is consumed as the value 0: the tick
\* that takes it off the queue appends 0 to the voltage, current and power
\* buffers, and no exception leaves the callback.
C15_MissingFieldIsZero ==
    [][(deq' # deq /\ MissingField(Last(deq'))) =>
        /\ cb_error' = cb_error
        /\ ins' = Append(ins, <<Zero, Zero, Zero>>)
        /\ Last(v_data') = Zero /\ Last(i_data') = Zero /\ Last(p_data') = Zero]_vars

\* C16: a tick drains the queue.  Of the items the queue held when the tick
\* began, each is taken by the tick or is still queued; and at the step that
\* schedules the next tick the get_nowait has found the queue empty, the
\* tick has taken at least the items that were queued when it began (so
\* every item ever enqueued is dequeued), and update_plot has been applied
\* to each item taken, in order.
C16_TickDrainsAll ==
    /\ [](tick.n + Len(rx_queue) >= tick.q0 /\ tick.n <= Len(deq))
    /\ [][(poll_scheduled' /\ ~poll_scheduled) =>
            /\ rx_queue = <<>> /\ rx_queue' = <<>>
            /\ tick.n >= tick.q0
            /\ deq = enq
            /\ Len(ins) = Len(deq)
            /\ \A j \in 1..tick.n :
                  ins[Len(ins) - tick.n + j][1] = VoltsOf(deq[Len(deq) - tick.n + j])]_vars

\* A tick that began with two samples on the queue has taken both, applied
\* them and scheduled the next tick.
C16_Witness ==
    /\ InMainloop /\ poll_scheduled
    /\ tick.q0 = 2 /\ tick.n = 2
    /\ Len(ins) >= 2
    /\ ins[Len(ins)][1] # ins[Len(ins) - 1][1]
    /\ cb_error = "nothing"

C18_EmptyTickNoOp ==
    /\ [][(main_pc = "mainloop" /\ main_pc' = "poll_queue") =>
            UNCHANGED <<conn, producer, channel, rolling, consumer, controls>>]_vars
    /\ [][(main_pc = "poll_queue" /\ tick.n = 0 /\ rx_queue = <<>> /\ main_pc' # main_pc) =>
            /\ poll_scheduled' /\ ~poll_scheduled
            /\ main_pc' = "mainloop"
            /\ UNCHANGED <<conn, producer, channel, rolling, consumer, controls>>
            /\ UNCHANGED <<stop_thread, close_calls>>]_vars
    /\ [][<<v_data, i_data, p_data>>' # <<v_data, i_data, p_data>> =>
            (main_pc = "poll_queue" /\ rx_queue # <<>> /\ tick'.n = tick.n + 1)]_vars

\* With samples plotted by an earlier tick, the latest tick found the queue
\* empty and has ended.
C18_Witness ==
    /\ InMainloop /\ poll_scheduled
    /\ tick = [q0 |-> 0, n |-> 0]
    /\ deq # <<>>
    /\ v_data # Zeros

\* The actions of the START and STOP commands written, oldest first.
StartStops ==
    SelectSeq([k \in 1..Len(tx) |-> CommandLoads(Body(tx[k])).action],
              LAMBDA a : a \in {"START", "STOP"})

\* C19: the START and STOP commands written to the connection alternate,
\* beginning with START, and running is true exactly when the last of them
\* is START.
C19_StartStopAlternate ==
    /\ \A k \in 1..Len(StartStops) :
          StartStops[k] = IF k % 2 = 1 THEN "START" ELSE "STOP"
    /\ running <=> (StartStops # <<>> /\ Last(StartStops) = "START")

\* The values set_analog can send: the clamped values of the entry texts
\* that are numbers.
AnalogValues == {Clamp(FloatOf(t)) : t \in {u \in AnalogTexts : FloatOk(u)}}

\* C20: every SIMULINK_ANALOG command written carries a value from 0 to 3.3,
\* the clamped value of a numeric entry text; when set_analog writes, the
\* displayed value is the value written; and the displayed value only
\* changes to such a value, in a call that went on to send_serial, so a text
\* that is not a number writes nothing and displays nothing new.
C20_AnalogClamped ==
    /\ [](\A k \in 1..Len(tx) :
            LET cmd == CommandLoads(Body(tx[k])) IN
            cmd.action = "SIMULINK_ANALOG" =>
                /\ ~FracLess(cmd.value, Zero)
                /\ ~FracLess(VMax, cmd.value)
                /\ cmd.value \in AnalogValues)
    /\ [][(tx' # tx /\ running' = running) =>
            CommandLoads(Body(Last(tx'))).value = analog_v']_vars
    /\ [][analog_v' # analog_v =>
            (analog_v' \in AnalogValues /\ send_log'.did # "nothing")]_vars

\* The text 5 was entered: 3.3 is displayed and was written.
C20_Witness ==
    /\ analog_v = VMax
    /\ tx # <<>>
    /\ CommandLoads(Body(Last(tx))) = [ok |-> TRUE, action |-> "SIMULINK_ANALOG", value |-> VMax]

====
